---------------------------- MODULE Spec2Model ----------------------------
(***************************************************************************)
(* A model of region.py: the Rectangle / Region value types of the         *)
(* classifier pipeline, their geometry mutations (edge setters, crop,      *)
(* enlarge, rescale), the buffer-bound metrics (calculate_mass,            *)
(* calculate_variance), the border flag, the uint16 array encoding and     *)
(* the three-term distance metric.                                         *)
(*                                                                         *)
(* One Region object ("region", Python's self) is the state.  Four         *)
(* specifications share the variables:                                     *)
(*   Spec          the geometry lifecycle of the object: edge setters,     *)
(*                 crop, enlarge, rescale, set_is_along_border;            *)
(*   SpecBuffer    calculate_mass / calculate_variance against buffers;    *)
(*   SpecArray     to_array / region_from_array (pure);                    *)
(*   SpecDistance  average_distance (pure).                                *)
(*                                                                         *)
(* Coordinates are Python ints (unbounded) unless a Region was decoded     *)
(* from a numpy uint16 array, in which case its numeric fields are uint16  *)
(* scalars and their arithmetic wraps modulo 2^16 (field dtype).           *)
(***************************************************************************)
EXTENDS Integers, Sequences, FiniteSets

VARIABLES
  region,  \* the Region object the methods are called on (self)
  other,   \* a second Region: the argument of average_distance, or the
           \* object region_from_array returned
  ret,     \* the value the last pure call returned (<< >> when none)
  last     \* the last call made: its name and the exception it raised

vars == <<region, other, ret, last>>

----------------------------------------------------------------------------
(* Bounds of the model *)

\* coordinates of Spec stay within -Margin .. MaxCoord
Margin == 1
MaxCoord == 2
\* buffers of SpecBuffer hold at most MaxPixels pixels
MaxPixels == 2
\* SpecArray draws positions from 0..ArraySpan and from the top of the uint16
\* range, 65535-ArraySpan..65535, and sizes from -1..ArraySpan
ArraySpan == 1
\* SpecDistance draws positions from -DistSpan..DistSpan, sizes from 0..DistSpan+1
DistSpan == 1

\* np.uint16: values are kept modulo 2^16
U16 == 65536

MinCoord == 0 - Margin
Coords == MinCoord..MaxCoord

----------------------------------------------------------------------------
(* Python values *)

\* frame_number = None
None == 0 - 1
\* pixel_variance = None (a present variance is a fraction <<num, den>>)
NoVariance == << >>
\* no return value
NoReturn == << >>

Min(a, b) == IF a <= b THEN a ELSE b
Max(a, b) == IF a >= b THEN a ELSE b
Abs(a) == IF a >= 0 THEN a ELSE 0 - a

\* int(n / d) for d > 0: Python's int() truncates toward zero
Trunc(n, d) == IF n >= 0 THEN n \div d ELSE 0 - ((0 - n) \div d)

RECURSIVE Gcd(_, _)
Gcd(a, b) == IF b = 0 THEN a ELSE Gcd(b, a % b)

\* the float num/den, as a fraction in lowest terms
Fraction(num, den) ==
  LET g == Gcd(num, den)
  IN IF num = 0 THEN <<0, 1>> ELSE <<num \div g, den \div g>>

----------------------------------------------------------------------------
(* Rectangle *)

\* Rectangle(x, y, width, height)
Rectangle(x, y, width, height) ==
  [x |-> x, y |-> y, width |-> width, height |-> height, dtype |-> "int"]

\* a + b on the fields of r: Python ints are unbounded, uint16 scalars wrap
Add(r, a, b) == IF r.dtype = "uint16" THEN (a + b) % U16 ELSE a + b

Left(r) == r.x
Top(r) == r.y
Right(r) == Add(r, r.x, r.width)
Bottom(r) == Add(r, r.y, r.height)

\* width and height are non-negative
Valid(r) == r.width >= 0 /\ r.height >= 0

\* the same position and size
SameRect(a, b) ==
  a.x = b.x /\ a.y = b.y /\ a.width = b.width /\ a.height = b.height

\* twice mid_x and mid_y (mid_x = x + width / 2 is a float with a half)
MidX2(r) == 2 * r.x + r.width
MidY2(r) == 2 * r.y + r.height

\* r.right = value
SetRight(r, value) == [r EXCEPT !.width = value - r.x]

\* r.bottom = value
SetBottom(r, value) == [r EXCEPT !.height = value - r.y]

\* a left setter that only moves x: the right edge moves with it
SetLeftMovesRight(r, value) == [r EXCEPT !.x = value]

\* r.left = value
SetLeft(r, value) ==
  LET old_right == Right(r)
  IN SetRight([r EXCEPT !.x = value], old_right)

\* r.top = value
SetTop(r, value) ==
  LET old_bottom == Bottom(r)
  IN SetBottom([r EXCEPT !.y = value], old_bottom)

\* a crop whose third line assigns the clamped right edge to width
CropAssignsWidth(r, bounds) ==
  LET r1 == SetLeft(r, Min(Right(bounds), Max(Left(r), Left(bounds))))
      r2 == SetTop(r1, Min(Bottom(bounds), Max(Top(r1), Top(bounds))))
      r3 == [r2 EXCEPT !.width = Max(Left(bounds), Min(Right(r2), Right(bounds)))]
  IN SetBottom(r3, Max(Top(bounds), Min(Bottom(r3), Bottom(bounds))))

\* a crop that clamps right and bottom from above only
CropNoLowerClamp(r, bounds) ==
  LET r1 == SetLeft(r, Min(Right(bounds), Max(Left(r), Left(bounds))))
      r2 == SetTop(r1, Min(Bottom(bounds), Max(Top(r1), Top(bounds))))
      r3 == SetRight(r2, Min(Right(r2), Right(bounds)))
  IN SetBottom(r3, Min(Bottom(r3), Bottom(bounds)))

\* r.crop(bounds)
Crop(r, bounds) ==
  LET r1 == SetLeft(r, Min(Right(bounds), Max(Left(r), Left(bounds))))
      r2 == SetTop(r1, Min(Bottom(bounds), Max(Top(r1), Top(bounds))))
      r3 == SetRight(r2, Max(Left(bounds), Min(Right(r2), Right(bounds))))
  IN SetBottom(r3, Max(Top(bounds), Min(Bottom(r3), Bottom(bounds))))

\* r.enlarge(border, max): max is << >> for None, <<bounds>> otherwise
\* (a Rectangle object is always truthy)
Enlarge(r, border, max) ==
  LET r1 == SetLeft(r, Left(r) - border)
      r2 == SetRight(r1, Right(r1) + border)
      r3 == SetTop(r2, Top(r2) - border)
      r4 == SetBottom(r3, Bottom(r3) + border)
  IN IF max # << >> THEN Crop(r4, max[1]) ELSE r4

----------------------------------------------------------------------------
(* Region *)

\* Region(x, y, width, height, mass, frame_number, pixel_variance, id,
\*        was_cropped, blank, is_along_border), with the attr.ib defaults
Region(x, y, width, height) ==
  [x |-> x, y |-> y, width |-> width, height |-> height, dtype |-> "int",
   mass |-> 0, frame_number |-> 0, pixel_variance |-> <<0, 1>>, id |-> 0,
   was_cropped |-> FALSE, blank |-> FALSE, is_along_border |-> FALSE]

\* a rescale that scales the right edge into width
RescaleScalesRight(r, factor) ==
  [r EXCEPT !.x = Trunc(r.x * factor[1], factor[2]),
            !.y = Trunc(r.y * factor[1], factor[2]),
            !.width = Trunc(Right(r) * factor[1], factor[2]),
            !.height = Trunc(Bottom(r) * factor[1], factor[2])]

\* r.rescale(factor): factor is the fraction <<num, den>>, den a power of two,
\* so that the float product is exact
Rescale(r, factor) ==
  [r EXCEPT !.x = Trunc(r.x * factor[1], factor[2]),
            !.y = Trunc(r.y * factor[1], factor[2]),
            !.width = Trunc(r.width * factor[1], factor[2]),
            !.height = Trunc(r.height * factor[1], factor[2])]

\* r.set_is_along_border(bounds, edge)
SetIsAlongBorder(r, bounds, edge) ==
  [r EXCEPT !.is_along_border =
     \/ r.was_cropped
     \/ r.x <= bounds.x + edge
     \/ r.y <= bounds.y + edge
     \/ Right(r) >= bounds.width - edge
     \/ Bottom(r) >= bounds.height - edge]

----------------------------------------------------------------------------
(* Spec: the geometry lifecycle of one Region *)

Called(op, err) == [op |-> op, err |-> err]

InWindow(r) ==
  /\ r.x \in Coords /\ r.y \in Coords
  /\ Right(r) \in Coords /\ Bottom(r) \in Coords

\* the frames regions are cropped to and measured against: the frame at the
\* origin, a frame inset by one pixel, a frame whose origin is negative, and
\* a degenerate frame of negative size
FrameAtOrigin == Rectangle(0, 0, MaxCoord, MaxCoord)
FrameInset == Rectangle(1, 1, MaxCoord - 1, MaxCoord - 1)
FrameNegativeOrigin == Rectangle(MinCoord, MinCoord, MaxCoord, MaxCoord)
FrameInverted == Rectangle(2, 2, 0 - 1, 0 - 1)
BoundsSet == {FrameAtOrigin, FrameInset, FrameNegativeOrigin, FrameInverted}

Borders == {0 - 1, 0, 1}
Edges == {0, 1}
MaxSet == {<< >>, <<FrameAtOrigin>>, <<FrameInset>>}
\* 0, 0.5, 1, 2 and -1
Factors == {<<0, 1>>, <<1, 2>>, <<1, 1>>, <<2, 1>>, <<0 - 1, 1>>}

\* Region(x, y, width, height, was_cropped=c) with width, height >= 0
Init ==
  /\ \E x \in Coords, y \in Coords, w \in 0..(MaxCoord - MinCoord),
        h \in 0..(MaxCoord - MinCoord), c \in BOOLEAN :
       /\ region = [Region(x, y, w, h) EXCEPT !.was_cropped = c]
       /\ InWindow(region)
  /\ other = Region(0, 0, 0, 0)
  /\ ret = NoReturn
  /\ last = Called("init", "none")

SetLeftStep(v) ==
  /\ InWindow(SetLeft(region, v))
  /\ region' = SetLeft(region, v)
  /\ last' = Called("set_left", "none")
  /\ UNCHANGED <<other, ret>>

SetTopStep(v) ==
  /\ InWindow(SetTop(region, v))
  /\ region' = SetTop(region, v)
  /\ last' = Called("set_top", "none")
  /\ UNCHANGED <<other, ret>>

SetRightStep(v) ==
  /\ InWindow(SetRight(region, v))
  /\ region' = SetRight(region, v)
  /\ last' = Called("set_right", "none")
  /\ UNCHANGED <<other, ret>>

SetBottomStep(v) ==
  /\ InWindow(SetBottom(region, v))
  /\ region' = SetBottom(region, v)
  /\ last' = Called("set_bottom", "none")
  /\ UNCHANGED <<other, ret>>

CropStep(bounds) ==
  /\ InWindow(Crop(region, bounds))
  /\ region' = Crop(region, bounds)
  /\ last' = Called("crop", "none")
  /\ UNCHANGED <<other, ret>>

EnlargeStep(border, max) ==
  /\ InWindow(Enlarge(region, border, max))
  /\ region' = Enlarge(region, border, max)
  /\ last' = Called("enlarge", "none")
  /\ UNCHANGED <<other, ret>>

RescaleStep(factor) ==
  /\ InWindow(Rescale(region, factor))
  /\ region' = Rescale(region, factor)
  /\ last' = Called("rescale", "none")
  /\ UNCHANGED <<other, ret>>

SetIsAlongBorderStep(bounds, edge) ==
  /\ region' = SetIsAlongBorder(region, bounds, edge)
  /\ last' = Called("set_is_along_border", "none")
  /\ UNCHANGED <<other, ret>>

Next ==
  \/ \E v \in Coords : SetLeftStep(v)
  \/ \E v \in Coords : SetTopStep(v)
  \/ \E v \in Coords : SetRightStep(v)
  \/ \E v \in Coords : SetBottomStep(v)
  \/ \E bounds \in BoundsSet : CropStep(bounds)
  \/ \E border \in Borders, max \in MaxSet : EnlargeStep(border, max)
  \/ \E factor \in Factors : RescaleStep(factor)
  \/ \E bounds \in BoundsSet, edge \in Edges : SetIsAlongBorderStep(bounds, edge)

Spec == Init /\ [][Next]_vars

----------------------------------------------------------------------------
(* Buffers: calculate_mass and calculate_variance *)

\* a filtered frame is a 2D array: a sequence of height rows of width pixels
Pixels == {0, 1}
Thresholds == {0}
Shapes ==
  {sh \in (1..MaxPixels) \X (1..MaxPixels) : sh[1] * sh[2] <= MaxPixels}
Buffers == UNION {[1..sh[1] -> [1..sh[2] -> Pixels]] : sh \in Shapes}

\* prev_filtered = None
NoBuffer == << >>

\* filtered.shape = (height, width)
Shape(filtered) == <<Len(filtered), Len(filtered[1])>>

Cells(filtered) == (1..Len(filtered)) \X (1..Len(filtered[1]))

RECURSIVE SumOver(_, _)
SumOver(f, S) ==
  IF S = {} THEN 0
  ELSE LET c == CHOOSE c \in S : TRUE
       IN f[c] + SumOver(f, S \ {c})

\* tools.calculate_mass(filtered, threshold): the number of pixels above
\* threshold
ToolsCalculateMass(filtered, threshold) ==
  Cardinality({c \in Cells(filtered) : filtered[c[1]][c[2]] > threshold})

\* Rectangle.calculate_mass(self, filtered, threshold): the object after the
\* call and the exception raised
RectangleCalculateMass(r, filtered, threshold) ==
  LET height == Shape(filtered)[1]
      width == Shape(filtered)[2]
  IN IF ~(width = r.width /\ height = r.height)
     THEN [self |-> r, err |-> "AssertionError"]
     ELSE [self |-> [r EXCEPT !.mass = ToolsCalculateMass(filtered, threshold)],
           err |-> "none"]

\* calculate_variance(filtered, prev_filtered): None without a previous
\* frame, else np.var(np.abs(filtered - prev_filtered)) as a fraction.
\* prev_filtered has the shape of filtered.
CalculateVariance(filtered, prev_filtered) ==
  IF prev_filtered = NoBuffer THEN NoVariance
  ELSE LET delta_frame ==
             [c \in Cells(filtered) |->
                Abs(filtered[c[1]][c[2]] - prev_filtered[c[1]][c[2]])]
           squares == [c \in Cells(filtered) |-> delta_frame[c] * delta_frame[c]]
           n == Cardinality(Cells(filtered))
           sum == SumOver(delta_frame, Cells(filtered))
       IN Fraction(n * SumOver(squares, Cells(filtered)) - sum * sum, n * n)

\* a calculate_variance without the shape assertion
RegionCalculateVarianceNoAssert(r, filtered, prev_filtered) ==
  [self |-> [r EXCEPT !.pixel_variance =
                        CalculateVariance(filtered, prev_filtered)],
   err |-> "none"]

\* Region.calculate_variance(self, filtered, prev_filtered): the object after
\* the call and the exception raised
RegionCalculateVariance(r, filtered, prev_filtered) ==
  LET height == Shape(filtered)[1]
      width == Shape(filtered)[2]
  IN IF ~(width = r.width /\ height = r.height)
     THEN [self |-> r, err |-> "AssertionError"]
     ELSE [self |-> [r EXCEPT !.pixel_variance =
                                CalculateVariance(filtered, prev_filtered)],
           err |-> "none"]

\* the previous frames a frame is compared with: none, or a uniform frame of
\* its shape
PrevBuffers(filtered) ==
  {NoBuffer} \cup
    {[i \in 1..Len(filtered) |-> [j \in 1..Len(filtered[1]) |-> p]] :
       p \in Pixels}

\* Region(x, y, width, height, mass=m, pixel_variance=pv)
InitBuffer ==
  /\ \E w \in 0..MaxPixels, h \in 0..MaxPixels, m \in 0..1,
        pv \in {<<0, 1>>, <<1, 4>>, NoVariance} :
       region = [Region(0, 0, w, h) EXCEPT !.mass = m, !.pixel_variance = pv]
  /\ other = Region(0, 0, 0, 0)
  /\ ret = NoReturn
  /\ last = Called("init", "none")

CalculateMassStep(filtered, threshold) ==
  LET call == RectangleCalculateMass(region, filtered, threshold)
  IN /\ region' = call.self
     /\ last' = Called("calculate_mass", call.err)
     /\ UNCHANGED <<other, ret>>

CalculateVarianceStep(filtered, prev_filtered) ==
  LET call == RegionCalculateVariance(region, filtered, prev_filtered)
  IN /\ region' = call.self
     /\ last' = Called("calculate_variance", call.err)
     /\ UNCHANGED <<other, ret>>

NextBuffer ==
  \/ \E filtered \in Buffers, threshold \in Thresholds :
       CalculateMassStep(filtered, threshold)
  \/ \E filtered \in Buffers :
       \E prev_filtered \in PrevBuffers(filtered) :
         CalculateVarianceStep(filtered, prev_filtered)

SpecBuffer == InitBuffer /\ [][NextBuffer]_vars

\* the Region the call was made on has the shape of the buffer
ShapeMatches(r, filtered) == Shape(filtered) = <<r.height, r.width>>

\* C1: calculate_variance with a buffer of the region's shape and no previous
\* buffer raises nothing and leaves pixel_variance at its prior value.
C1_NoPriorFrameIsNoOp ==
  [][last'.op = "calculate_variance" =>
     \A filtered \in Buffers :
       (ShapeMatches(region, filtered)
          /\ CalculateVarianceStep(filtered, NoBuffer))
       => (/\ last'.err = "none"
           /\ region'.pixel_variance = region.pixel_variance)]_vars

\* C4: calculate_mass or calculate_variance with a buffer whose shape is not
\* (height, width) of the region raises an error and leaves every field of
\* the Region (mass, pixel_variance, x, y, width, height among them) as it was.
C4_ShapeMismatchFailsWithoutMutation ==
  [][last'.op \in {"calculate_mass", "calculate_variance"} =>
     \A filtered \in Buffers :
       ~ShapeMatches(region, filtered) =>
         /\ \A threshold \in Thresholds :
              CalculateMassStep(filtered, threshold) =>
                (last'.err = "AssertionError" /\ region' = region)
         /\ \A prev_filtered \in PrevBuffers(filtered) :
              CalculateVarianceStep(filtered, prev_filtered) =>
                (last'.err = "AssertionError" /\ region' = region)]_vars

\* C4 witness: a call on a region of positive size that holds a mass and a
\* variance from earlier calls was rejected for its buffer's shape.
C4_Witness ==
  /\ last.err = "AssertionError"
  /\ region.width > 0 /\ region.height > 0
  /\ region.mass > 0
  /\ region.pixel_variance = <<1, 4>>

----------------------------------------------------------------------------
(* The uint16 array encoding: to_array and region_from_array *)

InU16(v) == v \in 0..(U16 - 1)

\* the list to_array hands to np.uint16
ArrayEntries(r) ==
  <<Left(r), Top(r), Right(r), Bottom(r), r.frame_number, r.mass,
    IF r.blank THEN 1 ELSE 0>>

\* r.to_array(): the array returned (NoReturn when the call raises) and the
\* exception.  np.uint16 of a list holding None raises TypeError; of a list
\* holding an int outside 0..65535 it wraps modulo 2^16 or raises
\* OverflowError, depending on the numpy version.
ToArray(r) ==
  LET entries == ArrayEntries(r)
      wrapped == [i \in 1..7 |-> entries[i] % U16]
  IN IF r.frame_number = None
     THEN {[arr |-> NoReturn, err |-> "TypeError"]}
     ELSE IF \A i \in 1..7 : InU16(entries[i])
     THEN {[arr |-> entries, err |-> "none"]}
     ELSE {[arr |-> wrapped, err |-> "none"],
           [arr |-> NoReturn, err |-> "OverflowError"]}

\* a region_from_array that takes right and bottom for width and height
RegionFromArrayKeepsRight(region_bounds) ==
  [x |-> region_bounds[1], y |-> region_bounds[2],
   width |-> region_bounds[3], height |-> region_bounds[4],
   dtype |-> "uint16",
   mass |-> IF Len(region_bounds) > 5 THEN region_bounds[6] ELSE 0,
   frame_number |-> IF Len(region_bounds) > 4 THEN region_bounds[5] ELSE None,
   pixel_variance |-> <<0, 1>>, id |-> 0, was_cropped |-> FALSE,
   blank |-> IF Len(region_bounds) > 6 THEN region_bounds[7] = 1 ELSE FALSE,
   is_along_border |-> FALSE]

\* Region.region_from_array(region_bounds): region_bounds is a uint16 array
\* of 4 to 7 entries (1-based here), whose differences wrap modulo 2^16
RegionFromArray(region_bounds) ==
  LET width == (region_bounds[3] - region_bounds[1]) % U16
      height == (region_bounds[4] - region_bounds[2]) % U16
      frame_number == IF Len(region_bounds) > 4 THEN region_bounds[5] ELSE None
      mass == IF Len(region_bounds) > 5 THEN region_bounds[6] ELSE 0
      blank == IF Len(region_bounds) > 6 THEN region_bounds[7] = 1 ELSE FALSE
  IN [x |-> region_bounds[1], y |-> region_bounds[2],
      width |-> width, height |-> height, dtype |-> "uint16",
      mass |-> mass, frame_number |-> frame_number,
      pixel_variance |-> <<0, 1>>, id |-> 0, was_cropped |-> FALSE,
      blank |-> blank, is_along_border |-> FALSE]

\* edges near both ends of the uint16 range
ArrayCoords == (0..ArraySpan) \cup ((U16 - 1 - ArraySpan)..(U16 - 1))
ArraySizes == (0 - 1)..ArraySpan
FrameNumbers == {None, 3, U16 - 1}
Masses == {0, 42}

\* Region(x, y, width, height, frame_number=f, mass=m, blank=b)
InitArray ==
  /\ \E x \in ArrayCoords, y \in 0..ArraySpan, w \in ArraySizes,
        h \in ArraySizes, f \in FrameNumbers, m \in Masses, b \in BOOLEAN :
       region = [Region(x, y, w, h) EXCEPT
                   !.frame_number = f, !.mass = m, !.blank = b]
  /\ other = Region(0, 0, 0, 0)
  /\ ret = NoReturn
  /\ last = Called("init", "none")

\* ret = region.to_array()
ToArrayStep ==
  \E call \in ToArray(region) :
    /\ ret' = call.arr
    /\ last' = Called("to_array", call.err)
    /\ UNCHANGED <<region, other>>

\* other = Region.region_from_array(ret[:n])
RegionFromArrayStep(n) ==
  /\ ret # NoReturn
  /\ other' = RegionFromArray(SubSeq(ret, 1, n))
  /\ last' = Called("region_from_array", "none")
  /\ UNCHANGED <<region, ret>>

NextArray ==
  \/ ToArrayStep
  \/ \E n \in 4..7 : RegionFromArrayStep(n)

SpecArray == InitArray /\ [][NextArray]_vars

\* left, top, right, bottom, frame_number and mass are present and in 0..65535
Encodable(r) ==
  /\ r.frame_number # None
  /\ \A i \in 1..6 : InU16(ArrayEntries(r)[i])

\* the decoded Region has the fields of r, and encodes to the array of r
RoundTrips(r, decoded) ==
  /\ decoded.x = r.x /\ decoded.y = r.y
  /\ decoded.width = r.width /\ decoded.height = r.height
  /\ decoded.frame_number = r.frame_number
  /\ decoded.mass = r.mass
  /\ decoded.blank = r.blank
  /\ ToArray(decoded) = ToArray(r)

\* C5, as stated: for every Region r whose left, top, right, bottom,
\* frame_number and mass lie in 0..65535, region_from_array(r.to_array()) has
\* the x, y, width, height, frame_number, mass and blank of r and encodes to
\* the same array.
C5_ArrayRoundTrip ==
  [][(Encodable(region) /\ RegionFromArrayStep(7))
     => RoundTrips(region, other')]_vars

\* C5, amended: the same, for every such Region r with width >= 0 and
\* height >= 0 (right >= left and bottom >= top).
C5_ArrayRoundTripOfOrderedEdges ==
  [][(Encodable(region) /\ Valid(region) /\ RegionFromArrayStep(7))
     => (/\ RoundTrips(region, other')
         /\ ToArray(other') = {[arr |-> ret, err |-> "none"]})]_vars

\* C5 witness: a Region of positive size reaching the top of the uint16
\* range, with frame_number 3, mass 42 and blank set, was encoded and decoded
\* from all seven entries.
C5_Witness ==
  /\ last.op = "region_from_array"
  /\ Encodable(region) /\ region.width > 0 /\ region.height > 0
  /\ Right(region) = U16 - 1
  /\ ret = <<region.x, region.y, U16 - 1, Bottom(region), 3, 42, 1>>
  /\ other.blank /\ other.mass = 42 /\ other.frame_number = 3
  /\ other.width = region.width

----------------------------------------------------------------------------
(* The distance metric: average_distance *)

\* eucl_distance(first, second): the squared distance
EuclDistance(first, second) ==
  LET first_sq == (first[1] - second[1]) * (first[1] - second[1])
      second_sq == (first[2] - second[2]) * (first[2] - second[2])
  IN first_sq + second_sq

\* r.average_distance(o).  mid_x and mid_y are floats with a half, so the
\* points are taken at twice their coordinates and each of the three terms
\* is four times the Python value.  int(o.x) of an int is o.x;
\* int(o.mid_x) truncates the half toward zero.
AverageDistance(r, o) ==
  LET d1 == EuclDistance(<<2 * o.x, 2 * o.y>>, <<2 * r.x, 2 * r.y>>)
      d2 == EuclDistance(<<2 * Trunc(MidX2(o), 2), 2 * Trunc(MidY2(o), 2)>>,
                         <<MidX2(r), MidY2(r)>>)
      d3 == EuclDistance(<<2 * Right(o), 2 * Bottom(o)>>,
                         <<2 * Right(r), 2 * Bottom(r)>>)
  IN <<d1, d2, d3>>

DistCoords == (0 - DistSpan)..DistSpan
DistSizes == 0..(DistSpan + 1)

\* two Regions of integer position and size
InitDistance ==
  /\ \E x \in DistCoords, y \in DistCoords, w \in DistSizes, h \in DistSizes :
       region = Region(x, y, w, h)
  /\ \E x \in DistCoords, y \in DistCoords, w \in DistSizes, h \in DistSizes :
       other = Region(x, y, w, h)
  /\ ret = NoReturn
  /\ last = Called("init", "none")

\* ret = region.average_distance(other)
AverageDistanceStep ==
  /\ ret' = AverageDistance(region, other)
  /\ last' = Called("average_distance", "none")
  /\ UNCHANGED <<region, other>>

NextDistance == AverageDistanceStep

SpecDistance == InitDistance /\ [][NextDistance]_vars

\* C2: for Regions of the same x, y, width and height, average_distance
\* returns [0, 0, 0].
C2_SameRegionDistanceZero ==
  (last.op = "average_distance" /\ SameRect(region, other))
    => ret = <<0, 0, 0>>

----------------------------------------------------------------------------
(* Claims about the geometry lifecycle, checked under Spec *)

C6_SettersHoldOppositeEdge ==
  [][last'.op \in {"set_left", "set_top", "set_right", "set_bottom"} =>
     \A v \in Coords :
       /\ SetLeftStep(v) =>
            /\ Left(region') = v /\ Right(region') = Right(region)
            /\ Top(region') = Top(region) /\ Bottom(region') = Bottom(region)
       /\ SetTopStep(v) =>
            /\ Top(region') = v /\ Bottom(region') = Bottom(region)
            /\ Left(region') = Left(region) /\ Right(region') = Right(region)
       /\ SetRightStep(v) =>
            /\ Right(region') = v /\ Left(region') = Left(region)
            /\ Top(region') = Top(region) /\ Bottom(region') = Bottom(region)
       /\ SetBottomStep(v) =>
            /\ Bottom(region') = v /\ Top(region') = Top(region)
            /\ Left(region') = Left(region) /\ Right(region') = Right(region)]_vars

\* C6 witness: left was assigned a value beyond the right edge, which stayed
\* where it was while the width went negative.
C6_Witness ==
  /\ last.op = "set_left"
  /\ region.x = MaxCoord /\ region.width < 0

\* C7: crop is idempotent: cropping the cropped rectangle to the same bounds
\* again changes nothing, whatever the rectangle and the bounds.
C7_CropIdempotent ==
  [][last'.op = "crop" =>
     \A bounds \in BoundsSet :
       CropStep(bounds) => Crop(region', bounds) = region']_vars

\* C7 witness: a rectangle was cropped and is now a zero-width rectangle on
\* the left edge of the inset frame (it lay entirely to the left of it).
C7_Witness ==
  /\ last.op = "crop"
  /\ region.x = Left(FrameInset) /\ region.width = 0
  /\ region.height > 0

\* C8, as stated: enlarge, rescale and set_is_along_border are idempotent: a
\* second call with the same arguments leaves the Region as the first left it.
C8_LifecycleIdempotent ==
  [][last'.op \in {"enlarge", "rescale", "set_is_along_border"} =>
     /\ \A border \in Borders, max \in MaxSet :
          EnlargeStep(border, max) => Enlarge(region', border, max) = region'
     /\ \A factor \in Factors :
          RescaleStep(factor) => Rescale(region', factor) = region'
     /\ \A bounds \in BoundsSet, edge \in Edges :
          SetIsAlongBorderStep(bounds, edge) =>
            SetIsAlongBorder(region', bounds, edge) = region']_vars

\* C8, amended: set_is_along_border is idempotent for all arguments;
\* enlarge(border, max) is idempotent when border = 0 and rescale(factor)
\* when factor is 0 or 1.
C8_IdempotentCases ==
  [][last'.op \in {"enlarge", "rescale", "set_is_along_border"} =>
     /\ \A max \in MaxSet :
          EnlargeStep(0, max) => Enlarge(region', 0, max) = region'
     /\ \A factor \in {<<0, 1>>, <<1, 1>>} :
          RescaleStep(factor) => Rescale(region', factor) = region'
     /\ \A bounds \in BoundsSet, edge \in Edges :
          SetIsAlongBorderStep(bounds, edge) =>
            SetIsAlongBorder(region', bounds, edge) = region']_vars

\* C8 witness: set_is_along_border has run on an uncropped region away from
\* the origin and marked it, and rescale has run on such a region.
C8_Witness ==
  \/ /\ last.op = "set_is_along_border"
     /\ region.is_along_border /\ ~region.was_cropped
     /\ region.x > 0 /\ region.y > 0
  \/ /\ last.op = "rescale"
     /\ region.x > 0 /\ region.width > 0

\* what C9 says is_along_border is: cropped, or within edge of an edge of
\* the bounds rectangle
NearBorder(r, bounds, edge) ==
  \/ r.was_cropped
  \/ Left(r) <= Left(bounds) + edge
  \/ Top(r) <= Top(bounds) + edge
  \/ Right(r) >= Right(bounds) - edge
  \/ Bottom(r) >= Bottom(bounds) - edge

\* C9: after set_is_along_border(bounds, edge), is_along_border is true for
\* every region that was cropped or lies within edge of an edge of bounds
\* (left <= bounds.left + edge, top <= bounds.top + edge,
\* right >= bounds.right - edge or bottom >= bounds.bottom - edge), for any
\* bounds rectangle, and false for a strictly interior, uncropped region.
C9_BorderFlagMatchesBoundsEdges ==
  [][last'.op = "set_is_along_border" =>
     \A bounds \in BoundsSet, edge \in Edges :
       (Valid(bounds) /\ SetIsAlongBorderStep(bounds, edge)) =>
         (region'.is_along_border <=> NearBorder(region, bounds, edge))]_vars

\* C10: after a crop(bounds) that moved an edge, or an enlarge(border, max)
\* whose crop step moved an edge, was_cropped is true.
C10_TruncationRecorded ==
  [][(\/ \E bounds \in BoundsSet :
           /\ CropStep(bounds)
           /\ ~SameRect(Crop(region, bounds), region)
      \/ \E border \in Borders, max \in MaxSet \ {<< >>} :
           /\ EnlargeStep(border, max)
           /\ ~SameRect(Enlarge(region, border, max),
                        Enlarge(region, border, << >>)))
     => region'.was_cropped]_vars

=============================================================================
